---------------------------- MODULE Spec2Model ----------------------------
(***************************************************************************)
(* Linear CorEx (src/linear_corex.py): one Corex instance, the process-    *)
(* wide numpy random generator it seeds, and the arrays its caller owns.   *)
(*                                                                         *)
(* Numbers.  numpy's float64 values are modelled as binary fixed-point     *)
(* numbers with twelve fractional bits: the integer v stands for the     *)
(* real v / ONE.  Finite values lie strictly between -FMAX and FMAX; the   *)
(* IEEE special values are the three integers PINF, NINF and NAN, and the  *)
(* arithmetic below follows the IEEE rules for them (x/0 = inf, 0/0 = nan, *)
(* inf-inf = nan, log 0 = -inf, every comparison with nan is false).       *)
(* Signed zeros are not modelled.                                          *)
(***************************************************************************)
EXTENDS Integers, Sequences, FiniteSets, TLC

ONE  == 2^12
HALF == ONE \div 2
FMAX == 2^25
PINF == 2^30
NINF == -(2^30)
NAN  == 2^30 + 1

IsNaN(a)    == a = NAN
IsFinite(a) == a > -FMAX /\ a < FMAX
AbsI(a)     == IF a < 0 THEN -a ELSE a
SgnI(a)     == IF a < 0 THEN -1 ELSE IF a > 0 THEN 1 ELSE 0
Inf(s)      == IF s < 0 THEN NINF ELSE PINF
\* a float result that left the finite range overflows to an infinity
Fix(v)      == IF v >= FMAX THEN PINF ELSE IF v <= -FMAX THEN NINF ELSE v
\* a literal p/q
Frac(p, q)  == (p * ONE) \div q

\* F applied to the values of its arguments, each evaluated once.  The
\* operators named ...V below work on values; the ones without the V are what
\* the rest of the module uses.
Strict1(F(_), a) == CHOOSE r \in {F(u) : u \in {a}} : TRUE
Strict2(F(_, _), a, b) == CHOOSE r \in {F(u, v) : u \in {a}, v \in {b}} : TRUE

NegV(a) == IF IsNaN(a) THEN NAN ELSE IF a = PINF THEN NINF ELSE IF a = NINF THEN PINF ELSE -a
Neg(a) == Strict1(NegV, a)

AddV(a, b) ==
    IF IsNaN(a) \/ IsNaN(b) THEN NAN
    ELSE IF a = PINF THEN (IF b = NINF THEN NAN ELSE PINF)
    ELSE IF a = NINF THEN (IF b = PINF THEN NAN ELSE NINF)
    ELSE IF b = PINF \/ b = NINF THEN b
    ELSE Fix(a + b)
Add(a, b) == Strict2(AddV, a, b)

Sub(a, b) == Add(a, Neg(b))

\* the product of two finite magnitudes, rounded to nearest
MulMag(na, nb) ==
    LET ah == na \div ONE
        al == na % ONE
        bh == nb \div ONE
        bl == nb % ONE
    IN  IF ah * bh >= FMAX \div ONE THEN PINF
        ELSE Fix(ah * bh * ONE + ah * bl + al * bh + (al * bl + HALF) \div ONE)

MulV(a, b) ==
    IF IsNaN(a) \/ IsNaN(b) THEN NAN
    ELSE IF ~IsFinite(a) \/ ~IsFinite(b)
         THEN (IF a = 0 \/ b = 0 THEN NAN ELSE Inf(SgnI(a) * SgnI(b)))
    ELSE LET r == MulMag(AbsI(a), AbsI(b))
         IN  IF SgnI(a) * SgnI(b) < 0 THEN Neg(r) ELSE r
Mul(a, b) == Strict2(MulV, a, b)

\* the quotient of two finite magnitudes, nb > 0
DivMag(na, nb) ==
    LET q == na \div nb
        r == na % nb
    IN  IF q >= FMAX \div ONE THEN PINF
        ELSE IF nb < PINF \div ONE THEN Fix(q * ONE + (r * ONE + nb \div 2) \div nb)
        ELSE Fix(q * ONE + r \div (nb \div ONE))

DivV(a, b) ==
    IF IsNaN(a) \/ IsNaN(b) THEN NAN
    ELSE IF ~IsFinite(a) THEN (IF ~IsFinite(b) THEN NAN
                               ELSE Inf(SgnI(a) * (IF b < 0 THEN -1 ELSE 1)))
    ELSE IF ~IsFinite(b) THEN 0
    ELSE IF b = 0 THEN (IF a = 0 THEN NAN ELSE Inf(SgnI(a)))
    ELSE LET r == DivMag(AbsI(a), AbsI(b))
         IN  IF SgnI(a) * SgnI(b) < 0 THEN Neg(r) ELSE r
Div(a, b) == Strict2(DivV, a, b)

AbsV(a) == IF IsNaN(a) THEN NAN ELSE IF a = NINF THEN PINF ELSE AbsI(a)
Abs(a) == Strict1(AbsV, a)

\* a < b on floats: false as soon as one side is nan
LtV(a, b) == ~IsNaN(a) /\ ~IsNaN(b) /\ a < b
Lt(a, b) == Strict2(LtV, a, b)

\* largest r with r * r <= n, by Newton's iteration from above
RECURSIVE ISqrtFrom(_, _)
ISqrtFrom(n, r) ==
    LET s == (r + n \div r) \div 2
    IN  IF s >= r THEN r ELSE Strict2(ISqrtFrom, n, s)

ISqrt(n) == IF n = 0 THEN 0 ELSE ISqrtFrom(n, n)

SqrtV(a) ==
    IF IsNaN(a) \/ a = NINF THEN NAN
    ELSE IF a = PINF THEN PINF
    ELSE IF a < 0 THEN NAN
    ELSE IF a < PINF \div ONE THEN ISqrt(a * ONE)
    ELSE ISqrt(a) * ISqrt(ONE)
Sqrt(a) == Strict1(SqrtV, a)

\* ln 2
LN2 == Frac(6931, 10000)

\* k with a / 2^k in [ONE, 2 ONE), for finite a > 0
RECURSIVE Log2Floor(_)
Log2Floor(a) ==
    IF a >= 2 * ONE THEN 1 + Log2Floor(a \div 2)
    ELSE IF a < ONE THEN Log2Floor(a * 2) - 1
    ELSE 0

\* a / 2^k
Scale2(a, k) == IF k >= 0 THEN a \div 2^k ELSE a * 2^(-k)

\* 2 atanh(z) = 2 (z + z^3/3 + z^5/5 + z^7/7), z2 being z^2 and 0 <= z <= 1/3
Atanh2(z, z2) ==
    2 * (z + Mul(z2, z) \div 3 + Mul(Mul(z2, z2), z) \div 5
           + Mul(Mul(Mul(z2, z2), z2), z) \div 7)

\* log(y 2^k) for y in [ONE, 2 ONE), z being (y - 1) / (y + 1)
LogParts(k, z) == k * LN2 + Strict2(Atanh2, z, Mul(z, z))

\* natural logarithm: log(a) = k ln 2 + 2 atanh((y - 1) / (y + 1)), y = a / 2^k
LogPos(a, k) == Strict2(LogParts, k, Div(Scale2(a, k) - ONE, Scale2(a, k) + ONE))

LogV(a) ==
    IF IsNaN(a) \/ a = NINF THEN NAN
    ELSE IF a = PINF THEN PINF
    ELSE IF a < 0 THEN NAN
    ELSE IF a = 0 THEN NINF
    ELSE Strict2(LogPos, a, Log2Floor(a))
Log(a) == Strict1(LogV, a)

\* exp(r) for 0 <= r < ln 2, r2 being r^2: the Taylor series to the fifth power
ExpSeries(r, r2) ==
    ONE + r + r2 \div 2 + Mul(r2, r) \div 6 + Mul(r2, r2) \div 24
        + Mul(Mul(r2, r2), r) \div 120

\* 2^k e
ExpParts(k, e) ==
    IF k >= Log2Floor(FMAX) THEN PINF
    ELSE IF k < Log2Floor(1) - 2 THEN 0
    ELSE IF k >= 0 THEN Fix(e * 2^k)
    ELSE (e + 2^(-k - 1)) \div 2^(-k)

\* exponential: exp(a) = 2^k exp(r), a = k ln 2 + r, 0 <= r < ln 2
ExpV(a) ==
    IF IsNaN(a) THEN NAN
    ELSE IF a = PINF THEN PINF
    ELSE IF a = NINF THEN 0
    ELSE Strict2(ExpParts, a \div LN2, Strict2(ExpSeries, a % LN2, Mul(a % LN2, a % LN2)))
Exp(a) == Strict1(ExpV, a)

\* expit with the sign of its denominator slipped: 1 / (1 - exp(-a))
ExpitSignSlip(a) == Div(ONE, Sub(ONE, Exp(Neg(a))))

\* scipy.special.expit: 1 / (1 + exp(-a))
Expit(a) == Div(ONE, Add(ONE, Exp(Neg(a))))


Half(a) == Mul(HALF, a)

\* e evaluated once and named in F
Let(e, F(_)) == CHOOSE r \in {F(v) : v \in {e}} : TRUE

(***************************************************************************)
(* Arrays.  A 1-d array is a sequence of numbers, a 2-d array a sequence   *)
(* of rows.  VecOf builds an array from its elements.                      *)
(***************************************************************************)
RECURSIVE VecOf(_, _)
VecOf(F(_), n) == IF n = 0 THEN <<>> ELSE Append(VecOf(F, n - 1), F(n))

\* np.sum / an einsum contraction of F over 1..n
RECURSIVE SumOf(_, _)
SumOf(F(_), n) == IF n = 0 THEN 0 ELSE Add(SumOf(F, n - 1), F(n))

\* np.sum of a 1-d array
SumSeq(s) == SumOf(LAMBDA i : s[i], Len(s))

NRows(a) == Len(a)
NCols(a) == Len(a[1])

\* a.T
MatT(a) == VecOf(LAMBDA j : VecOf(LAMBDA i : a[i][j], NRows(a)), NCols(a))

\* a.dot(b.T) for 2-d a (n x k) and b (m x k)
DotT(a, b) ==
    VecOf(LAMBDA l : VecOf(LAMBDA j : SumOf(LAMBDA i : Mul(a[l][i], b[j][i]), NCols(a)),
                           NRows(b)),
          NRows(a))

\* x.mean(axis=0)
ColMean(x) ==
    VecOf(LAMBDA i : Div(SumOf(LAMBDA l : x[l][i], NRows(x)), NRows(x) * ONE), NCols(x))

\* x - mean, the mean broadcast over the rows
Centered(x, mean) ==
    VecOf(LAMBDA l : VecOf(LAMBDA i : Sub(x[l][i], mean[i]), NCols(x)), NRows(x))

\* np.einsum('li,li->i', x, x) / n
VarOf(x) ==
    VecOf(LAMBDA i : Div(SumOf(LAMBDA l : Mul(x[l][i], x[l][i]), NRows(x)), NRows(x) * ONE),
          NCols(x))

\* Cramer's rule for a 2 x 2 system a z = b, det being a's determinant
Solve2(a, b, det) ==
    << VecOf(LAMBDA i : Div(Sub(Mul(a[2][2], b[1][i]), Mul(a[1][2], b[2][i])), det), NCols(b)),
       VecOf(LAMBDA i : Div(Sub(Mul(a[1][1], b[2][i]), Mul(a[2][1], b[1][i])), det), NCols(b)) >>

\* np.linalg.solve(a, b) for an m x m matrix a, m <= 2, and an m x k matrix b;
\* a zero determinant is a division by zero
Solve(a, b) ==
    IF NRows(a) = 1
    THEN <<VecOf(LAMBDA i : Div(b[1][i], a[1][1]), NCols(b))>>
    ELSE Let(Sub(Mul(a[1][1], a[2][2]), Mul(a[1][2], a[2][1])), LAMBDA det : Solve2(a, b, det))

\* g^(-1/2) of a symmetric 2 x 2 matrix g from r = sqrt(det g) and
\* t = sqrt(tr g + 2 r): adj(g + r I) / (r t)
InvSqrt2(g, r, t) ==
    << << Div(Add(g[2][2], r), Mul(r, t)), Div(Neg(g[1][2]), Mul(r, t)) >>,
       << Div(Neg(g[2][1]), Mul(r, t)), Div(Add(g[1][1], r), Mul(r, t)) >> >>

\* sqrt(tr g + 2 r)
TraceRoot(g, r) == Sqrt(Add(Add(g[1][1], g[2][2]), Add(r, r)))

\* g^(-1/2) for the Gram matrix g of at most two rows.  The code takes it
\* through the eigen-decomposition of g, u diag(1/sqrt(s)) u^T, which for these
\* sizes is the closed form used here.
InvSqrt(g) ==
    IF NRows(g) = 1
    THEN << <<Div(ONE, Sqrt(g[1][1]))>> >>
    ELSE Let(Sqrt(Sub(Mul(g[1][1], g[2][2]), Mul(g[1][2], g[2][1]))),
             LAMBDA r : Let(TraceRoot(g, r), LAMBDA t : InvSqrt2(g, r, t)))

\* a.dot(b) for 2-d a (m x k) and b (k x n)
MatMul(a, b) ==
    VecOf(LAMBDA r : VecOf(LAMBDA i : SumOf(LAMBDA s : Mul(a[r][s], b[s][i]), NRows(b)),
                           NCols(b)),
          NRows(a))

\* W <- (W W^T)^(-1/2) W
_sym_decorrelation(W) ==
    Let(DotT(W, W), LAMBDA g : Let(InvSqrt(g), LAMBDA h : MatMul(h, W)))

(***************************************************************************)
(* The statistics of a moments dictionary (the read-only properties).      *)
(***************************************************************************)
\* calculate_mi: m x nv, -0.5 log(1 - <X_i Y_j>^2 / (<Y_j^2> <X_i^2>))
calculate_mi(moments) ==
    VecOf(LAMBDA j :
          VecOf(LAMBDA i :
                Neg(Half(Log(Sub(ONE, Div(Mul(moments["X_i Y_j"][i][j], moments["X_i Y_j"][i][j]),
                                          Mul(moments["Y_j^2"][j], moments["X_i^2"][i])))))),
                Len(moments["X_i^2"])),
          Len(moments["Y_j^2"]))

\* tcs: TC(X;Y_j) = sum_i MI_ji - (0.5 log <Y_j^2> - 0.5 log noise^2)
tcs(moments, noise) ==
    Let(calculate_mi(moments), LAMBDA mis :
        VecOf(LAMBDA j : Sub(SumSeq(mis[j]),
                             Sub(Half(Log(moments["Y_j^2"][j])), Half(Log(Mul(noise, noise))))),
              Len(mis)))

\* tc: sum_j TC(X;Y_j)
tc(moments, noise) == Let(tcs(moments, noise), LAMBDA t : SumSeq(t))

\* additivity: sum_j MI_ji - (0.5 log <X_i^2> - 0.5 log <X_i^2 | Y>)
additivity(moments) ==
    Let(calculate_mi(moments), LAMBDA mis :
        VecOf(LAMBDA i : Sub(SumOf(LAMBDA j : mis[j][i], Len(mis)),
                             Sub(Half(Log(moments["X_i^2"][i])),
                                 Half(Log(moments["X_i^2 | Y"][i])))),
              Len(moments["X_i^2"])))

(***************************************************************************)
(* _calculate_moments                                                      *)
(***************************************************************************)
EmptyDict == <<>>

\* the dictionary built on lines 174-179
Bundle(var_x, C, cy, Z) ==
    ("X_i^2" :> var_x) @@ ("X_i Y_j" :> C) @@ ("cy" :> cy) @@ ("X_i Z_j" :> Z)
    @@ ("X_i^2 | Y" :> VecOf(LAMBDA i : Sub(var_x[i],
                                            SumOf(LAMBDA j : Mul(Z[i][j], C[i][j]), NCols(C))),
                             NRows(C)))
    @@ ("Y_j^2" :> VecOf(LAMBDA j : cy[j][j], NRows(cy)))

\* x.T.dot(y) / len(y)
CrossMoment(x, y) ==
    VecOf(LAMBDA i :
          VecOf(LAMBDA j : Div(SumOf(LAMBDA l : Mul(x[l][i], y[l][j]), NRows(x)), NRows(y) * ONE),
                NCols(y)),
          NCols(x))

\* ws.dot(C) + noise ** 2 * np.eye(m)
LatentCov(ws, C, noise) ==
    VecOf(LAMBDA r :
          VecOf(LAMBDA s : Add(SumOf(LAMBDA i : Mul(ws[r][i], C[i][s]), NRows(C)),
                               IF r = s THEN Mul(noise, noise) ELSE 0),
                NRows(ws)),
          NRows(ws))

\* the moments of centered data x under weights ws, var_x being the variance used
MomentsGiven(x, ws, var_x, noise) ==
    Let(DotT(x, ws), LAMBDA y :
    Let(CrossMoment(x, y), LAMBDA C :
    Let(LatentCov(ws, C, noise), LAMBDA cy :
    Let(MatT(C), LAMBDA Ct :
    Let(Solve(cy, Ct), LAMBDA Zt :
    Let(MatT(Zt), LAMBDA Z :
        Bundle(var_x, C, cy, Z)))))))

\* _calculate_moments(x) of an instance whose weights are ws and whose stored
\* dictionary is stored: lines 170-173 take the variance from the stored
\* dictionary when it has one
_calculate_moments(x, ws, stored, noise) ==
    Let(IF "X_i^2" \in DOMAIN stored THEN stored["X_i^2"] ELSE VarOf(x), LAMBDA var_x :
        MomentsGiven(x, ws, var_x, noise))

(***************************************************************************)
(* _update_ws                                                              *)
(***************************************************************************)
\* Q, line 185
QOf(mom) ==
    VecOf(LAMBDA j :
          VecOf(LAMBDA i : Div(mom["X_i Y_j"][i][j],
                               Sub(Mul(mom["X_i^2"][i], mom["Y_j^2"][j]),
                                   Mul(mom["X_i Y_j"][i][j], mom["X_i Y_j"][i][j]))),
                Len(mom["X_i^2"])),
          Len(mom["Y_j^2"]))

\* R, line 186
ROf(mom) ==
    VecOf(LAMBDA j :
          VecOf(LAMBDA i : Div(mom["X_i Z_j"][i][j], mom["X_i^2 | Y"][i]), Len(mom["X_i^2"])),
          Len(mom["Y_j^2"]))

\* np.einsum('ji,ij->i', noise**2 * D - ws, C), lines 188-189
Contract(D, ws, C, noise) ==
    VecOf(LAMBDA i : SumOf(LAMBDA j : Mul(Sub(Mul(Mul(noise, noise), D[j][i]), ws[j][i]), C[i][j]),
                           NRows(ws)),
          NRows(C))

\* line 192 for one variable
LamOf(add_i, ai_i, bi_i) ==
    IF Lt(add_i, 0) THEN Expit(Half(Log(Abs(Div(bi_i, ai_i))))) ELSE 0

\* lam as _update_ws leaves it, lines 187-192
UpdatedLam(ws, lam, mom, additive, noise) ==
    IF additive
    THEN Let(QOf(mom), LAMBDA Q :
         Let(ROf(mom), LAMBDA R :
         Let(Contract(Q, ws, mom["X_i Y_j"], noise), LAMBDA ai :
         Let(Contract(R, ws, mom["X_i Y_j"], noise), LAMBDA bi :
         Let(additivity(mom), LAMBDA add :
             VecOf(LAMBDA i : LamOf(add[i], ai[i], bi[i]), Len(add)))))))
    ELSE lam

\* H, lines 193-194
HOf(mom, lam) ==
    VecOf(LAMBDA r :
          VecOf(LAMBDA s :
                IF r = s THEN 0
                ELSE SumOf(LAMBDA i : Mul(Mul(Mul(mom["X_i Z_j"][i][r],
                                                  Div(ONE, mom["X_i^2 | Y"][i])),
                                              mom["X_i Z_j"][i][s]),
                                          Sub(ONE, lam[i])),
                           Len(lam)),
                Len(mom["Y_j^2"])),
          Len(mom["Y_j^2"]))

\* line 196
Damped(ws, lam, Q, R, S, noise) ==
    VecOf(LAMBDA j :
          VecOf(LAMBDA i :
                Half(Add(ws[j][i],
                         Mul(Mul(noise, noise),
                             Sub(Add(Mul(lam[i], Q[j][i]), Mul(Sub(ONE, lam[i]), R[j][i])),
                                 S[j][i])))),
                NCols(ws)),
          NRows(ws))

\* ws as _update_ws leaves it, lam being the multipliers it has just set
UpdatedWs(ws, lam, mom, noise) ==
    Let(QOf(mom), LAMBDA Q :
    Let(ROf(mom), LAMBDA R :
    Let(HOf(mom, lam), LAMBDA H :
    Let(MatMul(H, ws), LAMBDA S :
        Damped(ws, lam, Q, R, S, noise)))))

(***************************************************************************)
(* The configuration, the random generator and the caller's arrays.        *)
(***************************************************************************)
n_hidden == 2
noise    == Frac(3, 10)

MaxIter  == 2
MaxCalls == 3

\* the options of Corex.__init__ (n_hidden and noise are fixed above; the marginals
\* are not gaussianized)
Default ==
    [ max_iter |-> MaxIter, tol |-> Frac(1, 1000), lam_init |-> 0, additive |-> TRUE,
      copy |-> TRUE, seed |-> 0 ]

\* the instances explored: Default, and Default with one option set otherwise
\* (the multiplier's initial value also with the additivity constraint off)
Configs ==
    {Default, [Default EXCEPT !.max_iter = 1], [Default EXCEPT !.tol = Frac(1, 100)],
     [Default EXCEPT !.copy = FALSE], [Default EXCEPT !.seed = 1]}
    \cup {[Default EXCEPT !.lam_init = l, !.additive = b] : l \in {0, HALF, 2 * ONE}, b \in BOOLEAN}

\* the instances whose fits are followed to their return: the options the Fit
\* Loop's control depends on
LoopConfigs == {c \in Configs : c.lam_init = 0 /\ c.additive /\ c.copy /\ c.seed = 0}

\* The process-wide generator: the stream of standard normal draws it yields is
\* fixed by its state, a position in NormalStream.
NormalStream ==
    << -ONE, Frac(7, 4), -Frac(5, 4), -ONE, -Frac(1, 2), Frac(7, 4), Frac(1, 2) >>

\* np.random.seed(seed) for an integer seed: the generator's state
seeded(seed) == (2 * seed) % Len(NormalStream)

\* np.random.randn(m, nv) from generator state r: the array drawn
randn(r, m, nv) ==
    VecOf(LAMBDA j :
          VecOf(LAMBDA i : NormalStream[((r + (j - 1) * nv + (i - 1)) % Len(NormalStream)) + 1],
                nv),
          m)

\* the generator state after randn(m, nv)
rngAfter(r, m, nv) == (r + m * nv) % Len(NormalStream)

\* the float arrays the caller owns, by name
ArrayNames == {"A", "B", "C"}
FitNames   == {"A", "B"}
InitialArrays ==
    ("A" :> << <<6 * ONE, 6 * ONE, 6 * ONE>>, <<4 * ONE, 2 * ONE, 3 * ONE>>,
               <<ONE, 3 * ONE, 0>> >>) @@
    ("B" :> << <<ONE, 3 * ONE, 5 * ONE>>, <<5 * ONE, 2 * ONE, ONE>>,
               <<3 * ONE, 3 * ONE, ONE>> >>) @@
    ("C" :> << <<ONE, 0>>, <<2 * ONE, ONE>>, <<3 * ONE, 5 * ONE>> >>)

\* the latent values handed to predict
PredictInputs == { << <<ONE, HALF>> >> }

VARIABLES
    cfg,         \* the constructor's options (self.max_iter, self.tol, self.copy, self.additive, ...)
    nv,          \* self.nv
    n_samples,   \* self.n_samples (0: not set yet)
    ws,          \* self.ws
    lam,         \* self.lam; the scalar lam_init is the one-element array
    moments,     \* self.moments
    mean_x,      \* self.mean_x (<<>>: None)
    tc_history,  \* self.tc_history
    n_loops,     \* self.n_loops (-1: not set yet)
    rng,         \* the state of numpy's global generator
    arrays,      \* the caller's arrays
    pc,          \* where fit stands: "idle" outside fit, else the Fit Loop's state
    x,           \* fit's local x, the centered data
    i_loop,      \* fit's loop counter
    passes,      \* how many times the loop body has run since construction
    call,        \* the running fit call: the name and the contents of its argument
    log          \* the calls that returned, with what each returned and left stored

vars == << cfg, nv, n_samples, ws, lam, moments, mean_x, tc_history, n_loops, rng,
           arrays, pc, x, i_loop, passes, call, log >>

inst == << nv, n_samples, ws, lam, moments, mean_x, tc_history, n_loops >>

NoCall == [arg |-> "", inp |-> <<>>]

\* __init__
Init ==
    /\ cfg \in Configs
    /\ rng = seeded(cfg.seed)
    /\ nv = 0
    /\ n_samples = 0
    /\ ws = VecOf(LAMBDA j : <<>>, n_hidden)
    /\ lam = <<cfg.lam_init>>
    /\ moments = EmptyDict
    /\ mean_x = <<>>
    /\ tc_history = <<0>>
    /\ n_loops = -1
    /\ arrays = InitialArrays
    /\ pc = "idle"
    /\ x = <<>>
    /\ i_loop = 0
    /\ passes = 0
    /\ call = NoCall
    /\ log = <<>>

\* the copy option ignored: the caller's array is always centered in place
ArraysAfterInPlace(arrs, copy, a, xc) == [arrs EXCEPT ![a] = xc]

\* np.array(x, dtype=float, copy=self.copy) followed by an in-place x -= mean:
\* the caller's arrays afterwards, xc being the centered data
ArraysAfter(arrs, copy, a, xc) == IF copy THEN arrs ELSE [arrs EXCEPT ![a] = xc]

\* lam * np.ones(nv)
Broadcast(l, n) == IF Len(l) = 1 THEN VecOf(LAMBDA i : l[1], n) ELSE l

\* lines 120-122: the weights drawn, decorrelated and scaled, xc being the
\* centered data and r the generator's state
InitialWs(xc, r) ==
    Let(_sym_decorrelation(randn(r, n_hidden, NCols(xc))), LAMBDA w0 :
    Let(VarOf(xc), LAMBDA var_x :
        VecOf(LAMBDA j :
              VecOf(LAMBDA i : Div(Mul(w0[j][i], Mul(noise, noise)), Sqrt(var_x[i])), NCols(xc)),
              n_hidden)))

\* the record of a returned call
Entry(op, a, inp, details, err, Y, mom, W, stored) ==
    [ op |-> op, arg |-> a, inp |-> inp, details |-> details, err |-> err, Y |-> Y,
      mom |-> mom, W |-> W, stored |-> stored ]

\* fit, lines 113-123: the data centered, the weights drawn, lam broadcast
FitBegin(a) ==
    /\ pc = "idle"
    /\ Len(log) < MaxCalls
    /\ \E mean \in {ColMean(arrays[a])} :
       \E xc \in {Centered(arrays[a], mean)} :
          /\ n_samples' = NRows(xc)
          /\ nv' = NCols(xc)
          /\ mean_x' = mean
          /\ arrays' = ArraysAfter(arrays, cfg.copy, a, xc)
          /\ x' = xc
          /\ ws' = InitialWs(xc, rng)
          /\ rng' = rngAfter(rng, n_hidden, NCols(xc))
          /\ lam' = Broadcast(lam, NCols(xc))
    /\ call' = [arg |-> a, inp |-> arrays[a]]
    /\ i_loop' = 0
    /\ pc' = "ITERATING"
    /\ UNCHANGED << cfg, moments, tc_history, n_loops, passes, log >>

\* the convergence test of line 133 on the trace h
Converged(h, tol) == Lt(Abs(Sub(h[Len(h)], h[Len(h) - 1])), tol)

\* a trace that keeps only the two entries the convergence test reads
TraceAfterKeepTwo(h, v) == << h[Len(h)], v >>

\* the trace after line 127
TraceAfter(h, v) == Append(h, v)

\* the loop bound off by one: a pass more than max_iter before the loop gives up
AfterPassLate(h, i) ==
    IF Converged(h, cfg.tol) THEN "CONVERGED"
    ELSE IF i + 1 <= cfg.max_iter THEN "ITERATING"
    ELSE "EXHAUSTED"

\* where the loop stands after a pass: line 133's break, the next pass, or
\* the loop's else
AfterPass(h, i) ==
    IF Converged(h, cfg.tol) THEN "CONVERGED"
    ELSE IF i + 1 < cfg.max_iter THEN "ITERATING"
    ELSE "EXHAUSTED"

\* one pass of the loop body, lines 126-135
FitIter ==
    /\ pc = "ITERATING"
    /\ \E mom \in {_calculate_moments(x, ws, moments, noise)} :
       \E h \in {TraceAfter(tc_history, tc(mom, noise))} :
       \E lam2 \in {UpdatedLam(ws, lam, mom, cfg.additive, noise)} :
          /\ moments' = mom
          /\ tc_history' = h
          /\ lam' = lam2
          /\ ws' = UpdatedWs(ws, lam2, mom, noise)
          /\ pc' = AfterPass(h, i_loop)
          /\ i_loop' = IF AfterPass(h, i_loop) = "ITERATING" THEN i_loop + 1 ELSE i_loop
    /\ passes' = passes + 1
    /\ UNCHANGED << cfg, nv, n_samples, mean_x, n_loops, rng, arrays, x, call, log >>

\* np.argsort(-t) for up to two entries: the indices, largest t first
ArgsortDesc(t) ==
    IF Len(t) = 1 THEN <<1>>
    ELSE IF Lt(Neg(t[2]), Neg(t[1])) THEN <<2, 1>> ELSE <<1, 2>>

\* W[order]
Permuted(W, order) == VecOf(LAMBDA j : W[order[j]], Len(order))

\* lines 140-141: the weights reordered by the tcs of the stored moments
Reordered(W, stored) == Let(ArgsortDesc(tcs(stored, noise)), LAMBDA order : Permuted(W, order))

\* x cut or zero-padded to width columns
Resized(xa, width) ==
    VecOf(LAMBDA l : VecOf(LAMBDA i : IF i <= NCols(xa) THEN xa[l][i] ELSE 0, width), NRows(xa))

\* transform without the width assertion, the input silently cut or padded
TransformedResizing(a, details, W, stored, mean, width) ==
    Let(Centered(Resized(arrays[a], width), mean), LAMBDA xc :
        [err |-> "",
         Y |-> DotT(xc, W),
         mom |-> IF details THEN _calculate_moments(xc, W, stored, noise) ELSE EmptyDict,
         arrays |-> arrays])

\* transform, lines 149-160, of the caller's array a: what it reports, returns
\* and leaves in the caller's arrays (W, stored, mean and width are the instance's)
Transformed(a, details, W, stored, mean, width) ==
    IF NCols(arrays[a]) # width
    THEN [err |-> "AssertionError", Y |-> <<>>, mom |-> EmptyDict, arrays |-> arrays]
    ELSE Let(Centered(arrays[a], mean), LAMBDA xc :
             [err |-> "",
              Y |-> DotT(xc, W),
              mom |-> IF details THEN _calculate_moments(xc, W, stored, noise) ELSE EmptyDict,
              arrays |-> ArraysAfter(arrays, cfg.copy, a, xc)])

\* fit returns, lines 140-144
FitReturn ==
    /\ pc \in {"CONVERGED", "EXHAUSTED"}
    /\ \E W \in {Reordered(ws, moments)} :
       \E mom \in {_calculate_moments(x, W, moments, noise)} :
          /\ ws' = W
          /\ moments' = mom
          /\ log' = Append(log, Entry("fit", call.arg, call.inp, FALSE, "", <<>>, EmptyDict,
                                      W, mom))
    /\ n_loops' = i_loop
    /\ pc' = "idle"
    /\ call' = NoCall
    /\ UNCHANGED << cfg, nv, n_samples, lam, mean_x, tc_history, rng, arrays, x, i_loop,
                    passes >>

\* fit_transform returns, lines 109-110: fit's return, then transform of the
\* array the caller passed
FitTransformReturn(details) ==
    /\ pc \in {"CONVERGED", "EXHAUSTED"}
    /\ \E W \in {Reordered(ws, moments)} :
       \E mom \in {_calculate_moments(x, W, moments, noise)} :
       \E t \in {Transformed(call.arg, details, W, mom, mean_x, nv)} :
          /\ ws' = W
          /\ moments' = mom
          /\ arrays' = t.arrays
          /\ log' = Append(log, Entry("fit_transform", call.arg, call.inp, details, t.err,
                                      t.Y, t.mom, W, mom))
    /\ n_loops' = i_loop
    /\ pc' = "idle"
    /\ call' = NoCall
    /\ UNCHANGED << cfg, nv, n_samples, lam, mean_x, tc_history, rng, x, i_loop, passes >>

\* transform keeping the moments it computed as the instance's
TransformStoring(a, details) ==
    /\ pc = "idle"
    /\ nv > 0
    /\ Len(log) < MaxCalls
    /\ \E t \in {Transformed(a, details, ws, moments, mean_x, nv)} :
          /\ arrays' = t.arrays
          /\ moments' = IF details /\ t.err = "" THEN t.mom ELSE moments
          /\ log' = Append(log, Entry("transform", a, arrays[a], details, t.err, t.Y, t.mom,
                                      ws, moments))
    /\ UNCHANGED << cfg, nv, n_samples, ws, lam, mean_x, tc_history, n_loops, rng, pc, x,
                    i_loop, passes, call >>

\* transform(x, details) on a fitted instance
Transform(a, details) ==
    /\ pc = "idle"
    /\ nv > 0
    /\ Len(log) < MaxCalls
    /\ \E t \in {Transformed(a, details, ws, moments, mean_x, nv)} :
          /\ arrays' = t.arrays
          /\ log' = Append(log, Entry("transform", a, arrays[a], details, t.err, t.Y, t.mom,
                                      ws, moments))
    /\ UNCHANGED << cfg, inst, rng, pc, x, i_loop, passes, call >>

\* predict(y), line 163, on a fitted instance
Predict(y) ==
    /\ pc = "idle"
    /\ nv > 0
    /\ Len(log) < MaxCalls
    /\ log' = Append(log, Entry("predict", "", y, FALSE, "", DotT(y, moments["X_i Z_j"]),
                                EmptyDict, ws, moments))
    /\ UNCHANGED << cfg, inst, rng, arrays, pc, x, i_loop, passes, call >>

Next ==
    \/ \E a \in FitNames : FitBegin(a)
    \/ FitIter
    \/ FitReturn
    \/ \E details \in BOOLEAN : FitTransformReturn(details)
    \/ \E a \in ArrayNames, details \in BOOLEAN : Transform(a, details)
    \/ \E y \in PredictInputs : Predict(y)

Spec == Init /\ [][Next]_vars

\* fit is one synchronous call: once begun, its loop and its return run
FitReturns == FitReturn \/ \E details \in BOOLEAN : FitTransformReturn(details)
LoopInit == Init /\ cfg \in LoopConfigs
FairSpec == LoopInit /\ [][Next]_vars /\ WF_vars(FitIter) /\ WF_vars(FitReturns)


(***************************************************************************)
(* Properties.                                                             *)
(***************************************************************************)
Last == log[Len(log)]

IsFit(e) == e.op \in {"fit", "fit_transform"}

\* a fit call has just returned
FitReturned == pc = "idle" /\ Len(log) > 0 /\ IsFit(Last)

\* a >= b on floats
Ge(a, b) == ~IsNaN(a) /\ ~IsNaN(b) /\ a >= b

Descending(t) == \A j \in 1..(Len(t) - 1) : Ge(t[j], t[j + 1])

\* the test of the last two entries of the trace h against tol
Below(h, tol) == Lt(Abs(Sub(h[Len(h)], h[Len(h) - 1])), tol)

InUnit(v) == IsFinite(v) /\ 0 <= v /\ v <= ONE

\* the index of the last fit that returned before call k
LastFitBefore(k) ==
    CHOOSE i \in 1..(k - 1) : IsFit(log[i]) /\ \A j \in (i + 1)..(k - 1) : ~IsFit(log[j])

\* C1: after every fit that returns, the per-factor total correlations of the
\* moments left stored are in descending order, TC_1 >= TC_2.
C1_Descending == FitReturned => Descending(tcs(moments, noise))

\* C2: after any fit that returns, also a second fit on other data, the stored
\* moments are the Moment Estimator's result for that call's centered X and the
\* returned W, the stored variance being the variance of that X.
C2_MomentsOfThisFit == FitReturned => moments = MomentsGiven(x, ws, VarOf(x), noise)

\* C3: the moments transform(X, details=True) returns are computed afresh from
\* the X it was passed (centered with the stored mean) and the frozen W, the
\* variance included.
C3_FreshDetails ==
    (pc = "idle" /\ Len(log) > 0 /\ Last.op = "transform" /\ Last.details /\ Last.err = "")
    => Last.mom = MomentsGiven(Centered(Last.inp, mean_x), ws,
                               VarOf(Centered(Last.inp, mean_x)), noise)

\* C4, as stated: a predict that follows transform(B, details=True) reconstructs
\* with the cleaned cross-moment of the moments that transform computed.
C4_PredictAfterTransform ==
    (Len(log) >= 2 /\ Last.op = "predict" /\ log[Len(log) - 1].op = "transform"
       /\ log[Len(log) - 1].details /\ log[Len(log) - 1].err = "")
    => Last.Y = DotT(Last.inp, log[Len(log) - 1].mom["X_i Z_j"])

\* C4, amended: every predict reconstructs with the cleaned cross-moment of the
\* moments the most recent fit left stored, whatever transforms came between.
C4_PredictUsesLastFit ==
    \A k \in 1..Len(log) :
        log[k].op = "predict"
        => log[k].Y = DotT(log[k].inp, log[LastFitBefore(k)].stored["X_i Z_j"])

C4_Witness ==
    /\ Len(log) = 3
    /\ log[3].op = "predict"
    /\ log[2].op = "transform" /\ log[2].details /\ log[2].err = ""
    /\ log[2].mom # log[1].stored

\* two calls in a row, k and k + 1, that transform the same array of the caller
SameArrayTwice(k) ==
    /\ log[k].op \in {"transform", "fit_transform"}
    /\ log[k + 1].op = "transform"
    /\ log[k].arg = log[k + 1].arg
    /\ log[k].err = "" /\ log[k + 1].err = ""

\* C5, as stated: transforming the same array twice in a row (the first time
\* possibly inside fit_transform) returns the same latent values, whatever the
\* copy option.
C5_Idempotent ==
    \A k \in 1..(Len(log) - 1) : SameArrayTwice(k) => log[k].Y = log[k + 1].Y

\* C5, amended: with the copy option on, transforming the same array twice in
\* a row returns the same latent values.
C5_IdempotentWhenCopying == cfg.copy => C5_Idempotent

C5_Witness ==
    /\ cfg.copy
    /\ Len(log) = 3
    /\ log[1].op = "fit_transform"
    /\ SameArrayTwice(1) /\ SameArrayTwice(2)

\* C6: transform of an array whose width is not the fitted nv reports the
\* assertion error, returns nothing, and leaves the instance and the caller's
\* arrays as they were.
C6_WidthMismatch ==
    [][ (pc = "idle" /\ pc' = "idle" /\ Len(log') = Len(log) + 1
           /\ log'[Len(log')].op = "transform" /\ NCols(log'[Len(log')].inp) # nv)
        => /\ log'[Len(log')].err = "AssertionError"
           /\ log'[Len(log')].Y = <<>>
           /\ log'[Len(log')].mom = EmptyDict
           /\ inst' = inst
           /\ arrays' = arrays ]_vars

C6_Witness ==
    Len(log) > 0 /\ Last.op = "transform" /\ Last.err = "AssertionError" /\ NCols(Last.inp) # nv

\* C7: two fits with the same seed on the same data give the same W.
C7_SameSeedSameW ==
    \A i, j \in 1..Len(log) :
        (IsFit(log[i]) /\ IsFit(log[j]) /\ log[i].inp = log[j].inp) => log[i].W = log[j].W

\* C8, as stated for the EXHAUSTED outcome: when the loop has run max_iter passes
\* without converging, the last two trace entries differ by at least tol.
C8_ExhaustedApart ==
    pc = "EXHAUSTED"
    => Ge(Abs(Sub(tc_history[Len(tc_history)], tc_history[Len(tc_history) - 1])), cfg.tol)

\* the state of the Fit Loop: CONVERGED exactly when the last pass brought the
\* trace's last two entries within tol, EXHAUSTED after max_iter passes none of
\* which did, ITERATING while neither has happened
C8_States ==
    /\ pc = "CONVERGED" => Below(tc_history, cfg.tol)
    /\ pc = "EXHAUSTED" => ~Below(tc_history, cfg.tol) /\ i_loop + 1 = cfg.max_iter
    /\ pc = "ITERATING" => i_loop < cfg.max_iter /\ (i_loop > 0 => ~Below(tc_history, cfg.tol))

\* from a terminal state fit returns: W permuted, the moments recomputed for
\* it, the trace untouched
C8_Return ==
    (pc \in {"CONVERGED", "EXHAUSTED"})
    => /\ pc' = "idle"
       /\ ws' \in {ws, Permuted(ws, <<2, 1>>)}
       /\ moments' = MomentsGiven(x, ws', moments["X_i^2"], noise)
       /\ tc_history' = tc_history
       /\ pc = "EXHAUSTED" => ~Below(tc_history', cfg.tol)

\* one pass: the moments of the current W, the trace one entry longer, the
\* counter moving on only when the loop goes round again
C8_Pass ==
    (pc = "ITERATING")
    => /\ moments' = MomentsGiven(x, ws, moments'["X_i^2"], noise)
       /\ Len(tc_history') = Len(tc_history) + 1
       /\ tc_history'[Len(tc_history')] = tc(moments', noise)
       /\ i_loop' = IF pc' = "ITERATING" THEN i_loop + 1 ELSE i_loop

\* C8, the part that holds: for positive max_iter every fit reaches a terminal
\* state and returns: passes run until the first one whose test of the last two
\* trace entries against tol succeeds (CONVERGED), else exactly max_iter of them
\* run (EXHAUSTED); either way fit returns with W permuted and the moments
\* recomputed, and after EXHAUSTED that test still fails (the entries are at
\* least tol apart, or one of them is not a number).
C8_FitTerminates ==
    /\ [](C8_States)
    /\ [][C8_Pass /\ C8_Return]_vars
    /\ (pc = "ITERATING") ~> (pc = "idle")

C8_Witness ==
    /\ FitReturned
    /\ cfg.max_iter = MaxIter
    /\ n_loops + 1 = cfg.max_iter
    /\ ~Below(tc_history, cfg.tol)

\* C9, as stated: every multiplier lies in [0, 1] in every state, whatever
\* lam_init the instance was built with.
C9_LamInUnit == \A i \in 1..Len(lam) : InUnit(lam[i])

\* C9, amended: every multiplier lies in [0, 1] in every state of an instance
\* built with lam_init in [0, 1].
C9_LamInUnitFromUnit == InUnit(cfg.lam_init) => C9_LamInUnit

C9_Witness ==
    /\ cfg.additive
    /\ passes > 0
    /\ \E i \in 1..Len(lam) : lam[i] > 0 /\ lam[i] < ONE

\* C10, as stated: the trace has as many entries as passes have run.
C10_OnePerPass == passes >= 1 => Len(tc_history) = passes

\* C10, amended: the trace starts as the single entry 0, every pass appends
\* exactly one entry and nothing else touches the trace, so it holds one entry
\* more than passes have run (and the first test of a fit compares its first
\* total correlation with the entry before it, the 0 or the last value of the
\* fit before).
C10_AppendOnly ==
    /\ [](Len(tc_history) = passes + 1 /\ tc_history[1] = 0)
    /\ [][ IF pc = "ITERATING"
           THEN /\ Len(tc_history') = Len(tc_history) + 1
                /\ SubSeq(tc_history', 1, Len(tc_history)) = tc_history
                /\ passes' = passes + 1
           ELSE tc_history' = tc_history /\ passes' = passes ]_vars

C10_Witness ==
    /\ passes > cfg.max_iter
    /\ pc = "ITERATING"

=============================================================================
